---------------------------- MODULE Spec2Model ----------------------------
(***************************************************************************)
(* A model of lib3to6: the unusable-import checker, the __future__ import  *)
(* fixers, the cached per-file transpilation of the packaging integration, *)
(* the batch drivers and the staging of package directories.               *)
(*                                                                         *)
(* Python strings that the code compares or slices are sequences of code   *)
(* points (version strings) or of name pieces (paths); names that are only *)
(* tested for equality are TLA+ strings.                                   *)
(***************************************************************************)
EXTENDS Integers, Sequences, FiniteSets, TLC

VARIABLES
    \* ---- NoUnusableImportsChecker.__call__ ----
    c_target,       \* ctx.cfg.target_version as the pair it was written from
    c_backports,    \* ctx.cfg.backports: None or a set of module names
    c_tree,         \* tree.body: a sequence of nodes
    c_pc,           \* "call" before the checker ran, "returned" / "raised" after
    c_log,          \* the warnings passed to log.warning, in order
    c_err           \* the CheckError raised (NoError when none)

    \* ---- the future-import fixers and RemoveUnsupportedFuturesFixer ----
VARIABLES
    f_target,       \* cfg target_version as the pair it was written from
    f_fixers,       \* cfg fixers: the allow-list (absent: the defaults)
    f_source,       \* tree.body as parsed
    f_body,         \* tree.body as the fixers have left it so far
    f_required,     \* the ImportDecl's the fixers have registered
    f_pc,           \* "fixers", "cleanup" or "done"
    f_next          \* position in FUTURE_FIXERS of the next fixer to run

    \* ---- transpile_path, one call after the other ----
VARIABLES
    t_files,        \* the source files: path -> module source
    t_cache,        \* CACHE_DIR: cache path -> file (absent, or its content)
    t_results,      \* the calls that returned: configuration, input, path, content
    t_last          \* the latest call: its arguments, the error raised, whether it returned

    \* ---- transpile_path and shutil.copy in concurrent processes ----
VARIABLES
    r_cfg,          \* the configuration all processes build with
    r_source,       \* the module source all processes start from
    r_cache,        \* CACHE_DIR, shared by the processes
    r_staged,       \* each process's staged file
    r_pc,           \* each process's position
    r_data,         \* each process's module_source_data
    r_fixed         \* each process's fixed_module_source_data

    \* ---- the batch loops of main() and build_package() ----
VARIABLES
    b_mode,         \* "print", "diff", "in_place" (main) or "build_package"
    b_cfg,          \* the configuration of the run
    b_files,        \* the files of the batch, in the order the loop takes them
    b_fs,           \* the current content of each file of the batch
    b_cache,        \* CACHE_DIR
    b_out,          \* what main() has printed, one entry per file
    b_idx,          \* position in b_files of the loop
    b_pc,           \* "loop", "done" or "raised"
    b_err           \* the error that left the loop

    \* ---- init_build_package_dir ----
VARIABLES
    g_fs,           \* the file system below the working directory: a set of entries
    g_fs0,          \* the file system as it was when init_build_package_dir was called
    g_packages,     \* local_package_dir: the (package, source directory) items in order
    g_idx,          \* position in g_packages of the loop
    g_result,       \* build_package_dir
    g_pc            \* "start", "loop", "returned" or "raised"

    \* ---- eval_build_config ----
VARIABLES
    e_kwargs,       \* the keyword arguments of the call
    e_cfg,          \* the BuildConfig returned
    e_pc            \* "start", "returned" or "raised"

    \* ---- tests/test_fixers.py: test_fixers ----
VARIABLES
    x_fixers,       \* the allow-list of the fixture: fixer names in the order written
    x_in,           \* in_str: the header comment lines and the statements of the module
    x_in_header,    \* in_header as parse_module_header returns it
    x_result,       \* result_str: the header lines and the statements of the output
    x_pc            \* "parse", "transpile" or "done"

fixtureVars == <<x_fixers, x_in, x_in_header, x_result, x_pc>>
configVars == <<e_kwargs, e_cfg, e_pc>>
checkVars == <<c_target, c_backports, c_tree, c_pc, c_log, c_err>>
stageVars == <<g_fs, g_fs0, g_packages, g_idx, g_result, g_pc>>
batchVars == <<b_mode, b_cfg, b_files, b_fs, b_cache, b_out, b_idx, b_pc, b_err>>
cacheVars == <<t_files, t_cache, t_results, t_last>>
raceVars == <<r_cfg, r_source, r_cache, r_staged, r_pc, r_data, r_fixed>>
futureVars == <<f_target, f_fixers, f_source, f_body, f_required, f_pc, f_next>>

vars == <<checkVars, futureVars, cacheVars, raceVars, batchVars, stageVars, configVars, fixtureVars>>

\* what the actions of one part leave alone
notCheckVars == <<stageVars, futureVars, cacheVars, raceVars, batchVars, configVars, fixtureVars>>
notFutureVars == <<stageVars, checkVars, cacheVars, raceVars, batchVars, configVars, fixtureVars>>
notCacheVars == <<stageVars, checkVars, futureVars, raceVars, batchVars, configVars, fixtureVars>>
notRaceVars == <<stageVars, checkVars, futureVars, cacheVars, batchVars, configVars, fixtureVars>>
notBatchVars == <<stageVars, checkVars, futureVars, cacheVars, raceVars, configVars, fixtureVars>>
notStageVars == <<checkVars, futureVars, cacheVars, raceVars, batchVars, configVars, fixtureVars>>
notConfigVars == <<checkVars, futureVars, cacheVars, raceVars, batchVars, stageVars, fixtureVars>>
notFixtureVars == <<checkVars, futureVars, cacheVars, raceVars, batchVars, stageVars, configVars>>

-----------------------------------------------------------------------------
(* Bounds *)

\* target versions are MAJOR.MINOR with MINOR in 0..MaxMinor
MaxMinor == 10
\* number of statements in a module body
MaxBody == 2
\* number of `from __future__ import` statements at the top of a module
MaxFutureStmts == 2
\* number of concurrent build processes
NumProcs == 2
\* number of files in a batch
MaxFiles == 3
\* number of files in a package directory
MaxTreeFiles == 3
\* number of requirement strings in install_requires
MaxReqs == 2
\* number of comment lines in a module header, the shebang and coding lines aside
MaxComments == 2

-----------------------------------------------------------------------------
(* Python values *)

None == "None"
NoError == [kind |-> "NoError"]

\* typ.Optional[typ.Set[str]]: absent, or a set
NoSet == [some |-> FALSE, val |-> {}]
SomeSet(S) == [some |-> TRUE, val |-> S]

\* ord() of the characters a version string is made of
Dot == 46
Digit(d) == 48 + d

RECURSIVE DecStr(_)
\* str(n) for a natural number n: its decimal digits
DecStr(n) == IF n < 10 THEN <<Digit(n)>> ELSE DecStr(n \div 10) \o <<Digit(n % 10)>>

\* the string "MAJOR.MINOR" of a version pair
VersionStr(v) == DecStr(v[1]) \o <<Dot>> \o DecStr(v[2])

RECURSIVE DecVal(_)
\* int(s) for a string of decimal digits
DecVal(s) ==
    IF Len(s) = 0 THEN 0
    ELSE 10 * DecVal(SubSeq(s, 1, Len(s) - 1)) + (s[Len(s)] - 48)

\* position of the first "." of a version string
DotPos(s) == CHOOSE i \in 1..Len(s) : s[i] = Dot /\ \A j \in 1..(i - 1) : s[j] # Dot

\* the pair (major, minor) a version string "MAJOR.MINOR" denotes
VersionPair(s) ==
    <<DecVal(SubSeq(s, 1, DotPos(s) - 1)), DecVal(SubSeq(s, DotPos(s) + 1, Len(s)))>>

\* numeric order of version pairs
PairGeq(a, b) == a[1] > b[1] \/ (a[1] = b[1] /\ a[2] >= b[2])

RECURSIVE StrLess(_, _)
\* Python's str.__lt__: lexicographic order by code point
StrLess(a, b) ==
    IF Len(b) = 0 THEN FALSE
    ELSE IF Len(a) = 0 THEN TRUE
    ELSE IF a[1] # b[1] THEN a[1] < b[1]
    ELSE StrLess(Tail(a), Tail(b))

\* Python's str.__ge__
StrGeq(a, b) == ~StrLess(a, b)

-----------------------------------------------------------------------------
(* Syntax trees: tree.body is a sequence of statement nodes *)

\* ast.Import: `import a, b`
Import(names) ==
    [type |-> "Import", names |-> names, module |-> None, level |-> 0, body |-> <<>>]

\* ast.ImportFrom: `from module import a, b` (module is None for `from . import a`)
ImportFrom(module, names, level) ==
    [type |-> "ImportFrom", names |-> names, module |-> module, level |-> level, body |-> <<>>]

\* any other statement; a compound statement (Try, If, FunctionDef, ClassDef)
\* holds its child statements in body
Stmt(type, body) ==
    [type |-> type, names |-> <<>>, module |-> None, level |-> 0, body |-> body]

-----------------------------------------------------------------------------
(* checkers_backports.py *)

ModuleVersionInfo(available_since, backport_module, backport_package) ==
    [available_since  |-> available_since,
     backport_module  |-> backport_module,
     backport_package |-> backport_package]

\* the version string "3.<minor>" as the table writes it
V3(minor) == <<Digit(3), Dot, Digit(minor)>>

MAYBE_UNUSABLE_MODULES ==
    ("asyncio"             :> ModuleVersionInfo(V3(4), None, None)) @@
    ("zipapp"              :> ModuleVersionInfo(V3(5), None, None)) @@
    ("csv"                 :> ModuleVersionInfo(V3(0), "backports.csv", "backports.csv")) @@
    ("selectors"           :> ModuleVersionInfo(V3(4), "selectors2", "selectors2")) @@
    ("pathlib"             :> ModuleVersionInfo(V3(4), "pathlib2", "pathlib2")) @@
    ("importlib.resources" :> ModuleVersionInfo(V3(7), "importlib_resources", "importlib_resources")) @@
    ("inspect"             :> ModuleVersionInfo(V3(6), "inspect2", "inspect2")) @@
    ("lzma"                :> ModuleVersionInfo(V3(3), "lzma", "backports.lzma")) @@
    ("ipaddress"           :> ModuleVersionInfo(V3(4), "ipaddress", "py2-ipaddress")) @@
    ("enum"                :> ModuleVersionInfo(V3(4), "enum", "enum34")) @@
    ("typing"              :> ModuleVersionInfo(V3(5), "typing", "typing")) @@
    ("secrets"             :> ModuleVersionInfo(V3(6), "secrets", "python2-secrets")) @@
    ("statistics"          :> ModuleVersionInfo(V3(4), "statistics", "statistics")) @@
    ("dataclasses"         :> ModuleVersionInfo(V3(7), "dataclasses", "dataclasses")) @@
    ("contextvars"         :> ModuleVersionInfo(V3(7), "contextvars", "contextvars"))

\* a strict mode that is decided by the contents of the whitelist
IsStrictMode_WhenNonEmpty(backports) == backports.some /\ backports.val # {}

\* is_strict_mode of a configuration
IsStrictMode(backports) == backports.some

\* installed_backports of a configuration
InstalledBackports(backports) == IF ~backports.some THEN {} ELSE backports.val

RECURSIVE WalkNodes(_)
\* every node of the tree, nested ones included, as ast.walk would yield them
WalkNodes(body) ==
    IF Len(body) = 0 THEN <<>>
    ELSE <<Head(body)>> \o WalkNodes(Head(body).body) \o WalkNodes(Tail(body))

\* a checker that descends into compound statements
CheckedNodes_Walk(body) == WalkNodes(body)

\* the nodes the checker looks at: ast.iter_child_nodes(tree), as indexes of tree.body
CheckedNodes(body) == [i \in 1..Len(body) |-> body[i]]

\* module_names of one node
ModuleNames(node) ==
    IF node.type = "Import" THEN node.names
    ELSE IF node.type = "ImportFrom" /\ node.module # None THEN <<node.module>>
    ELSE <<>>

\* the branch taken for `target_version >= vnfo.available_since`
TargetSupports(target_version, vnfo) == StrGeq(target_version, vnfo.available_since)

\* an error message that never names the backport package
ErrMsg_NoPackage(mname, vnfo) ==
    <<"Prohibited import '", mname, "' (only available since python ",
      vnfo.available_since, ").", " No backported for this package is known.">>

\* errmsg of the CheckError for an import of mname
ErrMsg(mname, vnfo) ==
    <<"Prohibited import '", mname, "' (only available since python ",
      vnfo.available_since, ").">>
    \o (IF vnfo.backport_package # None
        THEN <<" Use 'https://pypi.org/project/", vnfo.backport_package, "' instead.">>
        ELSE <<" No backported for this package is known.">>)

\* a loop body that tolerates same-named backports in strict mode only
ImportOutcome_WarnWhenStrict(mname, target_version, backports) ==
    IF mname \notin DOMAIN MAYBE_UNUSABLE_MODULES THEN "continue"
    ELSE IF TargetSupports(target_version, MAYBE_UNUSABLE_MODULES[mname]) THEN "continue"
    ELSE IF mname \in InstalledBackports(backports) THEN "continue"
    ELSE IF mname = MAYBE_UNUSABLE_MODULES[mname].backport_module
            /\ IsStrictMode(backports) THEN "warning"
    ELSE "raise"

\* what the body of `for mname in module_names` does for one name:
\* "continue", "warning" (log.warning, then continue) or "raise"
ImportOutcome(mname, target_version, backports) ==
    IF mname \notin DOMAIN MAYBE_UNUSABLE_MODULES THEN "continue"
    ELSE IF TargetSupports(target_version, MAYBE_UNUSABLE_MODULES[mname]) THEN "continue"
    ELSE IF mname \in InstalledBackports(backports) THEN "continue"
    ELSE IF mname = MAYBE_UNUSABLE_MODULES[mname].backport_module
            /\ ~IsStrictMode(backports) THEN "warning"
    ELSE "raise"

\* the log.warning record for an import of mname at line lineno
Warning(ctx, lineno, mname) ==
    [filepath |-> ctx.filepath, lineno |-> lineno, mname |-> mname,
     target_version |-> ctx.cfg.target_version]

RECURSIVE CheckNames(_, _, _, _, _)
\* the loop over module_names of the node at position i, from name k on;
\* yields the log and the error (NoError when the loop ran to its end)
CheckNames(ctx, nodes, i, k, log) ==
    LET names == ModuleNames(nodes[i]) IN
    IF k > Len(names) THEN [log |-> log, err |-> NoError]
    ELSE LET mname   == names[k]
             outcome == ImportOutcome(mname, ctx.cfg.target_version, ctx.cfg.backports)
         IN  IF outcome = "raise"
             THEN [log |-> log,
                   err |-> [kind   |-> "CheckError",
                            msg    |-> ErrMsg(mname, MAYBE_UNUSABLE_MODULES[mname]),
                            lineno |-> i]]
             ELSE CheckNames(ctx, nodes, i, k + 1,
                             IF outcome = "warning"
                             THEN Append(log, Warning(ctx, i, mname))
                             ELSE log)

RECURSIVE CheckNodes(_, _, _, _)
\* the loop over the checked nodes, from position i on
CheckNodes(ctx, nodes, i, log) ==
    IF i > Len(nodes) THEN [log |-> log, err |-> NoError]
    ELSE LET r == CheckNames(ctx, nodes, i, 1, log) IN
         IF r.err.kind # "NoError" THEN r ELSE CheckNodes(ctx, nodes, i + 1, r.log)

\* NoUnusableImportsChecker.__call__(ctx, tree)
NoUnusableImportsChecker(ctx, body) == CheckNodes(ctx, CheckedNodes(body), 1, <<>>)

-----------------------------------------------------------------------------
(* The checker applied to bounded inputs *)

\* common.BuildConfig as eval_build_config builds it, with the backports option
BuildConfig(target_version, cache_enabled, fixers, backports) ==
    [target_version   |-> target_version,
     cache_enabled    |-> cache_enabled,
     default_mode     |-> "enabled",
     fixers           |-> fixers,
     checkers         |-> "",
     install_requires |-> NoSet,
     backports        |-> backports]

\* common.BuildContext(cfg, filepath)
BuildContext(cfg, filepath) == [cfg |-> cfg, filepath |-> filepath]

Targets == {2, 3} \X (0..MaxMinor)

ImportedModules == DOMAIN MAYBE_UNUSABLE_MODULES \cup {"os", "importlib"}

\* statements around an import of module m
NodeChoices(m) ==
    { Import(<<m>>),
      ImportFrom(m, <<"x">>, 0),
      Import(<<"os", m>>),
      Import(<<"asyncio">>),
      ImportFrom(None, <<"x">>, 1),
      Stmt("Try", <<Import(<<m>>)>>),
      Stmt("FunctionDef", <<ImportFrom(m, <<"x">>, 0)>>) }

CheckTrees ==
    UNION { UNION { [1..n -> NodeChoices(m)] : n \in 0..MaxBody } : m \in ImportedModules }

BackportsChoices == { NoSet, SomeSet({}), SomeSet({"lzma"}), SomeSet({"asyncio", "pathlib"}) }

CheckCtx == BuildContext(BuildConfig(VersionStr(c_target), TRUE, "", c_backports), "mod.py")

CheckInit ==
    /\ c_target \in Targets
    /\ c_backports \in BackportsChoices
    /\ c_tree \in CheckTrees
    /\ c_pc = "call"
    /\ c_log = <<>>
    /\ c_err = NoError

CheckIdle ==
    /\ c_target = <<2, 7>>
    /\ c_backports = NoSet
    /\ c_tree = <<>>
    /\ c_pc = "idle"
    /\ c_log = <<>>
    /\ c_err = NoError

\* one call of the checker on (ctx, tree)
CheckerCall ==
    /\ c_pc = "call"
    /\ LET r == NoUnusableImportsChecker(CheckCtx, c_tree) IN
       /\ c_log' = r.log
       /\ c_err' = r.err
       /\ c_pc' = IF r.err.kind = "NoError" THEN "returned" ELSE "raised"
    /\ UNCHANGED <<c_target, c_backports, c_tree>>
    /\ UNCHANGED notCheckVars


-----------------------------------------------------------------------------
(* fixers_future.py *)

VersionInfo(apply_since, apply_until) ==
    [apply_since |-> apply_since, apply_until |-> apply_until]

\* the version string "2.<minor>" as the fixers write it
V2(minor) == <<Digit(2), Dot, Digit(minor)>>

\* the version string "3.99"
V399 == <<Digit(3), Dot, Digit(9), Digit(9)>>

\* a FutureImportFixerBase subclass
FutureFixer(name, future_name, version_info) ==
    [name |-> name, future_name |-> future_name, version_info |-> version_info]

\* FutureImportFixerBase.__subclasses__(), in definition order
FUTURE_FIXERS ==
    << FutureFixer("AnnotationsFutureFixer",     "annotations",      VersionInfo(V3(7), V399)),
       FutureFixer("GeneratorStopFutureFixer",   "generator_stop",   VersionInfo(V3(5), V3(6))),
       FutureFixer("UnicodeLiteralsFutureFixer", "unicode_literals", VersionInfo(V2(6), V2(7))),
       FutureFixer("PrintFunctionFutureFixer",   "print_function",   VersionInfo(V2(6), V2(7))),
       FutureFixer("WithStatementFutureFixer",   "with_statement",   VersionInfo(V2(5), V2(5))),
       FutureFixer("AbsoluteImportFutureFixer",  "absolute_import",  VersionInfo(V2(5), V2(7))),
       FutureFixer("DivisionFutureFixer",        "division",         VersionInfo(V2(2), V2(7))),
       FutureFixer("GeneratorsFutureFixer",      "generators",       VersionInfo(V2(2), V2(2))),
       FutureFixer("NestedScopesFutureFixer",    "nested_scopes",    VersionInfo(V2(1), V2(1))) >>

\* FixerBase.is_compatible_with(target_version):
\* apply_since <= target_version <= apply_until on (major, minor) pairs
IsCompatibleWith(version_info, target_version) ==
    /\ PairGeq(VersionPair(target_version), VersionPair(version_info.apply_since))
    /\ PairGeq(VersionPair(version_info.apply_until), VersionPair(target_version))

\* common.ImportDecl(module_name, import_name, alias)
ImportDecl(module_name, import_name) ==
    [module_name |-> module_name, import_name |-> import_name, alias |-> None]

\* a fixer that registers no import
FutureImportFixerCall_NoImport(fixer, required_imports) == required_imports

\* FutureImportFixerBase.__call__: the required_imports after the call
FutureImportFixerCall(fixer, required_imports) ==
    required_imports \cup {ImportDecl("__future__", fixer.future_name)}

\* supported_futures of RemoveUnsupportedFuturesFixer.__call__
SupportedFutures(target_version) ==
    { FUTURE_FIXERS[i].future_name : i \in
        { j \in 1..Len(FUTURE_FIXERS) :
            IsCompatibleWith(FUTURE_FIXERS[j].version_info, target_version) } }

\* [alias for alias in names if alias.name in supported]
RECURSIVE FilterNames(_, _)
FilterNames(names, supported) ==
    IF Len(names) = 0 THEN <<>>
    ELSE (IF Head(names) \in supported THEN <<Head(names)>> ELSE <<>>)
         \o FilterNames(Tail(names), supported)

RECURSIVE CleanupLoop(_, _, _)
\* the loop over tree.body from position i on, with the deletions applied:
\* it stops at the first node that is not a `from __future__ import` of level 0
CleanupLoop(body, i, supported) ==
    IF i > Len(body) THEN body
    ELSE IF body[i].type # "ImportFrom" THEN body
    ELSE IF ~(body[i].module = "__future__" /\ body[i].level = 0) THEN body
    ELSE LET new_names == FilterNames(body[i].names, supported) IN
         IF new_names = body[i].names THEN CleanupLoop(body, i + 1, supported)
         ELSE IF Len(new_names) = 0
              \* nodes_to_del: the node is removed, the next one takes its position
              THEN CleanupLoop(SubSeq(body, 1, i - 1) \o SubSeq(body, i + 1, Len(body)),
                               i, supported)
              ELSE CleanupLoop([body EXCEPT ![i].names = new_names], i + 1, supported)

\* RemoveUnsupportedFuturesFixer.__call__(cfg, tree): the tree.body it returns
RemoveUnsupportedFuturesFixer(cfg, body) ==
    CleanupLoop(body, 1, SupportedFutures(cfg.target_version))

-----------------------------------------------------------------------------
(* The fixers applied to bounded inputs, in the order of the pipeline *)

\* a fixer runs when its version range holds the target and the allow-list
\* (the defaults when there is none) selects it
FixerSelected(fixer, cfg) ==
    /\ IsCompatibleWith(fixer.version_info, cfg.target_version)
    /\ (cfg.fixers.some => fixer.name \in cfg.fixers.val)

FutureStmt(names) == ImportFrom("__future__", names, 0)

FutureNameLists ==
    { <<"annotations">>, <<"division">>, <<"braces">>,
      <<"print_function", "annotations">>,
      <<"annotations", "unicode_literals", "generator_stop">> }

\* module bodies: an optional docstring, the future imports, the other statements
FutureBodies ==
    { doc \o futures \o rest :
        doc \in { <<>>, <<Stmt("Expr", <<>>)>> },
        futures \in UNION { [1..n -> {FutureStmt(l) : l \in FutureNameLists}]
                            : n \in 0..MaxFutureStmts },
        rest \in { <<>>, <<Stmt("Assign", <<>>)>>,
                   <<ImportFrom("__future__", <<"division">>, 1), Stmt("Assign", <<>>)>> } }

FixerChoices ==
    { NoSet,
      SomeSet({"AbsoluteImportFutureFixer", "DivisionFutureFixer",
               "PrintFunctionFutureFixer", "UnicodeLiteralsFutureFixer"}),
      SomeSet({"AnnotationsFutureFixer", "GeneratorStopFutureFixer"}) }

FutureCfg == BuildConfig(VersionStr(f_target), TRUE, f_fixers, NoSet)

FutureInit ==
    /\ f_target \in Targets
    /\ f_fixers \in FixerChoices
    /\ f_source \in FutureBodies
    /\ f_body = f_source
    /\ f_required = {}
    /\ f_pc = "fixers"
    /\ f_next = 1

FutureIdle ==
    /\ f_target = <<2, 7>>
    /\ f_fixers = NoSet
    /\ f_source = <<>>
    /\ f_body = <<>>
    /\ f_required = {}
    /\ f_pc = "idle"
    /\ f_next = 1

\* the pipeline calls the next future-import fixer when it is selected
RunFutureFixer ==
    /\ f_pc = "fixers"
    /\ f_next <= Len(FUTURE_FIXERS)
    /\ f_required' = IF FixerSelected(FUTURE_FIXERS[f_next], FutureCfg)
                     THEN FutureImportFixerCall(FUTURE_FIXERS[f_next], f_required)
                     ELSE f_required
    /\ f_next' = f_next + 1
    /\ f_pc' = IF f_next = Len(FUTURE_FIXERS) THEN "cleanup" ELSE "fixers"
    /\ UNCHANGED <<f_target, f_fixers, f_source, f_body>>
    /\ UNCHANGED notFutureVars

\* the pipeline calls RemoveUnsupportedFuturesFixer last
RunCleanupFixer ==
    /\ f_pc = "cleanup"
    /\ f_body' = RemoveUnsupportedFuturesFixer(FutureCfg, f_body)
    /\ f_pc' = "done"
    /\ UNCHANGED <<f_target, f_fixers, f_source, f_required, f_next>>
    /\ UNCHANGED notFutureVars

-----------------------------------------------------------------------------
(* transpile.py: the pipeline behind transpile_module_data *)

\* the order in which the header lists the required future imports
FUTURE_IMPORT_ORDER ==
    << "with_statement", "unicode_literals", "print_function", "nested_scopes",
       "generators", "generator_stop", "division", "annotations", "absolute_import" >>

RECURSIVE RunFixers(_, _, _)
\* the required imports after the selected fixers from position i on have run
RunFixers(cfg, i, required_imports) ==
    IF i > Len(FUTURE_FIXERS) THEN required_imports
    ELSE RunFixers(cfg, i + 1,
                   IF FixerSelected(FUTURE_FIXERS[i], cfg)
                   THEN FutureImportFixerCall(FUTURE_FIXERS[i], required_imports)
                   ELSE required_imports)

\* one import statement per required future feature, in header order
RequiredImportStmts(required_imports) ==
    LET wanted == SelectSeq(FUTURE_IMPORT_ORDER,
                            LAMBDA n : ImportDecl("__future__", n) \in required_imports)
    IN  [i \in 1..Len(wanted) |-> ImportFrom("__future__", <<wanted[i]>>, 0)]

\* the serialized module: docstring, required imports, rewritten body
Reassemble(required_imports, body) ==
    IF Len(body) > 0 /\ body[1].type = "Expr"
    THEN <<body[1]>> \o RequiredImportStmts(required_imports) \o Tail(body)
    ELSE RequiredImportStmts(required_imports) \o body

\* a further checker of the catalog: it rejects a module that holds a construct
\* with no safe rewrite, with a CheckError that knows no line (lineno -1)
NoRewriteChecker(ctx, body) ==
    IF \E i \in 1..Len(body) : body[i].type = "NoRewrite"
    THEN [log |-> <<>>,
          err |-> [kind |-> "CheckError", msg |-> <<"Prohibited construct">>, lineno |-> -1]]
    ELSE [log |-> <<>>, err |-> NoError]

\* transpile.transpile_module_data(ctx, module_source_data):
\* the CheckError of the first failing checker, or the rewritten module
TranspileModuleData(ctx, module_source_data) ==
    LET imports == NoUnusableImportsChecker(ctx, module_source_data)
        checked == IF imports.err.kind # "NoError" THEN imports
                   ELSE NoRewriteChecker(ctx, module_source_data)
    IN
    IF checked.err.kind # "NoError"
    THEN [err |-> checked.err, data |-> <<>>]
    ELSE [err  |-> NoError,
          data |-> Reassemble(RunFixers(ctx.cfg, 1, {}),
                              RemoveUnsupportedFuturesFixer(ctx.cfg, module_source_data))]

-----------------------------------------------------------------------------
(* packaging.py: transpile_path *)

\* a file of the cache directory
NoFile == [exists |-> FALSE, data |-> <<>>]
File(data) == [exists |-> TRUE, data |-> data]

\* str(cfg): the rendering of every field of the configuration
StrCfg(cfg) ==
    << cfg.target_version, cfg.cache_enabled, cfg.default_mode, cfg.fixers,
       cfg.checkers, cfg.install_requires, cfg.backports >>

\* a cache key that leaves the configuration out
CachePath_DataOnly(cfg, module_source_data) == << <<>>, module_source_data >>

\* cache_path: the sha1 digest of str(cfg) followed by the file's bytes,
\* a digest being identified with what was hashed
CachePath(cfg, module_source_data) == << StrCfg(cfg), module_source_data >>

\* the `not cfg.cache_enabled or not cache_path.exists()` test
MustTranspile(cfg, cache, cache_path) == ~cfg.cache_enabled \/ ~cache[cache_path].exists

\* a loc that always names a line
ErrLoc_AlwaysLineno(filepath, err) == <<filepath, "@", err.lineno>>

\* loc of the `except common.CheckError` clause
ErrLoc(filepath, err) == IF err.lineno >= 0 THEN <<filepath, "@", err.lineno>> ELSE <<filepath>>

\* the CheckError as re-raised: err.args[0] prefixed with loc and " - "
Annotated(filepath, err) == [err EXCEPT !.msg = ErrLoc(filepath, err) \o <<" - ">> \o @]

\* transpile_path(cfg, filepath) on a file holding module_source_data:
\* the cache afterwards, and the error raised or the path returned
TranspilePath(cfg, filepath, module_source_data, cache) ==
    LET cache_path == CachePath(cfg, module_source_data)
        fixed      == TranspileModuleData(BuildContext(cfg, filepath), module_source_data)
    IN  IF MustTranspile(cfg, cache, cache_path)
        THEN IF fixed.err.kind # "NoError"
             THEN [cache |-> cache, err |-> Annotated(filepath, fixed.err), path |-> cache_path]
             ELSE [cache |-> [cache EXCEPT ![cache_path] = File(fixed.data)],
                   err   |-> NoError, path |-> cache_path]
        ELSE [cache |-> cache, err |-> NoError, path |-> cache_path]

-----------------------------------------------------------------------------
(* transpile_path called again and again *)

CacheTargets == { <<2, 7>>, <<3, 7>> }

\* the configurations of the builds that share the cache directory
CacheCfgs ==
    { BuildConfig(VersionStr(t), e, NoSet, NoSet) : t \in CacheTargets, e \in BOOLEAN }

\* the module sources the builds transpile
CacheSources ==
    { <<Import(<<"asyncio">>), Stmt("Assign", <<>>)>>,
      <<Stmt("Assign", <<>>)>>,
      <<Stmt("Assign", <<>>), Stmt("NoRewrite", <<>>)>>,
      <<FutureStmt(<<"annotations", "division">>), Stmt("Assign", <<>>)>> }

CacheFilePaths == { "a.py", "b.py" }

CachePaths == { CachePath(cfg, src) : cfg \in CacheCfgs, src \in CacheSources }

CacheInit ==
    /\ t_files \in [CacheFilePaths -> CacheSources]
    /\ t_cache = [k \in CachePaths |-> NoFile]
    /\ t_results = {}
    /\ t_last = [cfg |-> None, filepath |-> None, err |-> NoError, returned |-> FALSE]

CacheIdle ==
    /\ t_files = <<>>
    /\ t_cache = <<>>
    /\ t_results = {}
    /\ t_last = [cfg |-> None, filepath |-> None, err |-> NoError, returned |-> FALSE]

\* one call transpile_path(cfg, filepath)
TranspilePathCall ==
    \E cfg \in CacheCfgs, filepath \in CacheFilePaths :
        LET call == TranspilePath(cfg, filepath, t_files[filepath], t_cache) IN
        /\ t_cache' = call.cache
        /\ t_last' = [cfg |-> cfg, filepath |-> filepath,
                       err |-> call.err, returned |-> call.err.kind = "NoError"]
        /\ t_results' =
              IF call.err.kind = "NoError"
              THEN t_results \cup { [cfg  |-> cfg, source |-> t_files[filepath],
                                     path |-> call.path,
                                     data |-> call.cache[call.path].data] }
              ELSE t_results
        /\ UNCHANGED t_files
        /\ UNCHANGED notCacheVars

-----------------------------------------------------------------------------
(* Concurrent builds: each process runs transpile_path on its staged file and *)
(* copies the cache entry over it, one file system call at a time             *)

Procs == 1..NumProcs

RaceInit ==
    /\ r_cfg \in CacheCfgs
    /\ r_source \in CacheSources
    /\ r_cache = [k \in CachePaths |-> NoFile]
    /\ r_staged = [p \in Procs |-> File(r_source)]
    /\ r_pc = [p \in Procs |-> "read"]
    /\ r_data = [p \in Procs |-> <<>>]
    /\ r_fixed = [p \in Procs |-> <<>>]

RaceIdle ==
    /\ r_cfg = BuildConfig(VersionStr(<<2, 7>>), TRUE, NoSet, NoSet)
    /\ r_source = <<>>
    /\ r_cache = <<>>
    /\ r_staged = <<>>
    /\ r_pc = <<>>
    /\ r_data = <<>>
    /\ r_fixed = <<>>

\* cache_path of process p
RaceCachePath(p) == CachePath(r_cfg, r_data[p])

\* open(filepath, mode="rb") ... fobj.read()
ReadSource(p) ==
    /\ r_pc[p] = "read"
    /\ r_data' = [r_data EXCEPT ![p] = r_staged[p].data]
    /\ r_pc' = [r_pc EXCEPT ![p] = "test"]
    /\ UNCHANGED <<r_cfg, r_source, r_cache, r_staged, r_fixed>>
    /\ UNCHANGED notRaceVars

\* if not cfg.cache_enabled or not cache_path.exists()
TestCache(p) ==
    /\ r_pc[p] = "test"
    /\ r_pc' = [r_pc EXCEPT ![p] =
                   IF MustTranspile(r_cfg, r_cache, RaceCachePath(p))
                   THEN "transpile" ELSE "copy"]
    /\ UNCHANGED <<r_cfg, r_source, r_cache, r_staged, r_data, r_fixed>>
    /\ UNCHANGED notRaceVars

\* transpile.transpile_module_data(ctx, module_source_data)
TranspileData(p) ==
    /\ r_pc[p] = "transpile"
    /\ LET fixed == TranspileModuleData(BuildContext(r_cfg, "mod.py"), r_data[p]) IN
       /\ r_fixed' = [r_fixed EXCEPT ![p] = fixed.data]
       /\ r_pc' = [r_pc EXCEPT ![p] = IF fixed.err.kind # "NoError" THEN "raised" ELSE "open"]
    /\ UNCHANGED <<r_cfg, r_source, r_cache, r_staged, r_data>>
    /\ UNCHANGED notRaceVars

\* open(cache_path, mode="wb"): the file is created or truncated
OpenCacheFile(p) ==
    /\ r_pc[p] = "open"
    /\ r_cache' = [r_cache EXCEPT ![RaceCachePath(p)] = File(<<>>)]
    /\ r_pc' = [r_pc EXCEPT ![p] = "write"]
    /\ UNCHANGED <<r_cfg, r_source, r_staged, r_data, r_fixed>>
    /\ UNCHANGED notRaceVars

\* fobj.write(fixed_module_source_data) and the close of the file:
\* the whole output is written from offset 0
WriteCacheFile(p) ==
    /\ r_pc[p] = "write"
    /\ r_cache' = [r_cache EXCEPT ![RaceCachePath(p)] = File(r_fixed[p])]
    /\ r_pc' = [r_pc EXCEPT ![p] = "copy"]
    /\ UNCHANGED <<r_cfg, r_source, r_staged, r_data, r_fixed>>
    /\ UNCHANGED notRaceVars

\* shutil.copy(transpiled_path, filepath) of build_package and run_3to6
CopyToStaged(p) ==
    /\ r_pc[p] = "copy"
    /\ r_staged' = [r_staged EXCEPT ![p] = File(r_cache[RaceCachePath(p)].data)]
    /\ r_pc' = [r_pc EXCEPT ![p] = "done"]
    /\ UNCHANGED <<r_cfg, r_source, r_cache, r_data, r_fixed>>
    /\ UNCHANGED notRaceVars

-----------------------------------------------------------------------------
(* __main__.py: main, and packaging.py: build_package *)

\* a file of a batch: its suffix and the module source it holds at the start
BatchFile(suffix, source) == [suffix |-> suffix, source |-> source]

BatchFileChoices ==
    { BatchFile(".py", src) : src \in CacheSources } \cup { BatchFile(".txt", <<>>) }

BatchModes == { "print", "diff", "in_place", "build_package" }

\* packaging.eval_build_config() without arguments, as main() calls it
DefaultCfg == BuildConfig(VersionStr(<<2, 7>>), TRUE, NoSet, NoSet)

BatchInit ==
    /\ b_mode \in BatchModes
    /\ b_cfg \in (IF b_mode = "build_package" THEN CacheCfgs ELSE {DefaultCfg})
    /\ b_files \in UNION { [1..n -> BatchFileChoices] : n \in 0..MaxFiles }
    /\ b_fs = [i \in 1..Len(b_files) |-> File(b_files[i].source)]
    /\ b_cache = [k \in CachePaths |-> NoFile]
    /\ b_out = <<>>
    /\ b_idx = 1
    /\ b_pc = "loop"
    /\ b_err = NoError

BatchIdle ==
    /\ b_mode = "idle"
    /\ b_cfg = DefaultCfg
    /\ b_files = <<>>
    /\ b_fs = <<>>
    /\ b_cache = <<>>
    /\ b_out = <<>>
    /\ b_idx = 1
    /\ b_pc = "idle"
    /\ b_err = NoError

\* a loop that goes on with the next file after an error
Uncaught_Continue(idx) == [pc |-> "loop", idx |-> idx + 1]

\* an exception raised in the body of the `for` loop is not caught:
\* it leaves the loop at the file it was raised for
Uncaught(idx) == [pc |-> "raised", idx |-> idx]

\* the path of the file at position i of the batch
BatchPath(i) == <<"file", i>>

\* one pass of `for src_file in source_files` in main()
MainLoopBody ==
    /\ b_mode \in {"print", "diff", "in_place"}
    /\ b_pc = "loop"
    /\ b_idx <= Len(b_files)
    /\ LET source_text == b_fs[b_idx].data
           fixed       == TranspileModuleData(BuildContext(b_cfg, "<filepath>"), source_text)
       IN  IF fixed.err.kind # "NoError"
           THEN /\ b_pc' = Uncaught(b_idx).pc
                /\ b_idx' = Uncaught(b_idx).idx
                /\ b_err' = fixed.err
                /\ UNCHANGED <<b_fs, b_out>>
           ELSE /\ b_pc' = "loop"
                /\ b_idx' = b_idx + 1
                /\ b_err' = b_err
                /\ IF b_mode = "diff"
                   THEN b_out' = Append(b_out, <<source_text, fixed.data>>) /\ b_fs' = b_fs
                   ELSE IF b_mode = "in_place"
                   THEN b_fs' = [b_fs EXCEPT ![b_idx] = File(fixed.data)] /\ b_out' = b_out
                   ELSE b_out' = Append(b_out, fixed.data) /\ b_fs' = b_fs
    /\ UNCHANGED <<b_mode, b_cfg, b_files, b_cache>>
    /\ UNCHANGED notBatchVars

\* one pass of `for filename in files` of build_package, over the walked files
BuildPackageLoopBody ==
    /\ b_mode = "build_package"
    /\ b_pc = "loop"
    /\ b_idx <= Len(b_files)
    /\ IF b_files[b_idx].suffix # ".py"
       THEN /\ b_idx' = b_idx + 1
            /\ UNCHANGED <<b_pc, b_err, b_fs, b_cache>>
       ELSE LET call == TranspilePath(b_cfg, BatchPath(b_idx), b_fs[b_idx].data, b_cache) IN
            IF call.err.kind # "NoError"
            THEN /\ b_pc' = Uncaught(b_idx).pc
                 /\ b_idx' = Uncaught(b_idx).idx
                 /\ b_err' = call.err
                 /\ UNCHANGED <<b_fs, b_cache>>
            ELSE /\ b_cache' = call.cache
                 \* shutil.copy(transpiled_path, filepath)
                 /\ b_fs' = [b_fs EXCEPT ![b_idx] = File(call.cache[call.path].data)]
                 /\ b_idx' = b_idx + 1
                 /\ UNCHANGED <<b_pc, b_err>>
    /\ UNCHANGED <<b_mode, b_cfg, b_files, b_out>>
    /\ UNCHANGED notBatchVars

\* the loop has taken every file
LoopExit ==
    /\ b_pc = "loop"
    /\ b_idx > Len(b_files)
    /\ b_pc' = "done"
    /\ UNCHANGED <<b_mode, b_cfg, b_files, b_fs, b_cache, b_out, b_idx, b_err>>
    /\ UNCHANGED notBatchVars

-----------------------------------------------------------------------------
(* packaging.py: _ignore_tmp_files and init_build_package_dir                 *)
(*                                                                           *)
(* A file name is a sequence of pieces ("a", ".pyc"), a path a sequence of    *)
(* names, and the string of a path its names joined by "/".  The pieces are   *)
(* cut so that str.startswith and str.endswith of the code's patterns fall on *)
(* piece boundaries.                                                          *)

StartsWith(str, prefix) ==
    Len(str) >= Len(prefix) /\ SubSeq(str, 1, Len(prefix)) = prefix

EndsWith(str, suffix) ==
    Len(str) >= Len(suffix) /\ SubSeq(str, Len(str) - Len(suffix) + 1, Len(str)) = suffix

RECURSIVE PathStr(_)
\* os.path.join of the names of a path
PathStr(parts) ==
    IF Len(parts) = 0 THEN <<>>
    ELSE IF Len(parts) = 1 THEN parts[1]
    ELSE parts[1] \o <<"/">> \o PathStr(Tail(parts))

\* the path without its "." components, as the file system resolves it
NormPath(parts) == SelectSeq(parts, LAMBDA n : n # <<".">>)

\* _ignore_tmp_files(src, names): the names copytree is to skip in directory src
IgnoreTmpFiles(src_str, names) ==
    IF StartsWith(src_str, <<"build">>) \/ StartsWith(src_str, <<".", "/", "build">>) THEN names
    ELSE IF EndsWith(src_str, <<".egg-info">>) THEN names
    ELSE IF EndsWith(src_str, <<"dist">>) THEN names
    ELSE IF EndsWith(src_str, <<"__pycache__">>) THEN names
    ELSE { name \in names : EndsWith(name, <<".pyc">>) }

\* an entry of the file system
DirEntry(path) == [path |-> path, kind |-> "dir", data |-> <<>>]
FileEntry(path, data) == [path |-> path, kind |-> "file", data |-> data]

IsPrefix(p, q) == Len(p) <= Len(q) /\ SubSeq(q, 1, Len(p)) = p

PathExists(fs, path) == \E e \in fs : e.path = path

\* os.scandir(path): the entries directly inside a directory
Entries(fs, path) == { e \in fs : Len(e.path) = Len(path) + 1 /\ IsPrefix(path, e.path) }

\* Path.mkdir(parents=True, exist_ok=True) and os.makedirs
MakeDirs(fs, path) ==
    fs \cup { DirEntry(SubSeq(path, 1, n)) :
                n \in { k \in 1..Len(path) : ~PathExists(fs, SubSeq(path, 1, k)) } }

\* shutil.rmtree(path)
RmTree(fs, path) == { e \in fs : ~IsPrefix(path, e.path) }

RECURSIVE CopyTree(_, _, _)
\* shutil.copytree(src, dst, ignore=_ignore_tmp_files): the entries it creates.
\* The directory dst is made, then every entry of src whose name ignore does
\* not return is copied, directories by a recursive call with os.path.join(src, name)
CopyTree(fs, src, dst) ==
    LET entries       == Entries(fs, NormPath(src))
        names         == { e.path[Len(e.path)] : e \in entries }
        ignored_names == IgnoreTmpFiles(PathStr(src), names)
    IN  {DirEntry(dst)} \cup
        UNION { IF e.kind = "dir"
                THEN CopyTree(fs, Append(src, e.path[Len(e.path)]), Append(dst, e.path[Len(e.path)]))
                ELSE {FileEntry(Append(dst, e.path[Len(e.path)]), e.data)}
                : e \in { x \in entries : x.path[Len(x.path)] \notin ignored_names } }

\* output_dir = pl.Path("build") / "lib3to6_out"
OutputDir == << <<"build">>, <<"lib3to6_out">> >>

\* a source directory of the package mapping: a relative path, or an absolute one
RelDir(parts) == [is_abs |-> FALSE, parts |-> parts]
AbsDir(parts) == [is_abs |-> TRUE, parts |-> parts]

\* build_package_subdir = output_dir / src_package_dir
BuildPackageSubdir(src_package_dir) == OutputDir \o NormPath(src_package_dir.parts)

-----------------------------------------------------------------------------
(* init_build_package_dir on bounded working directories *)

\* files a package directory may hold, relative to the package directory
TreeFileChoices ==
    { << <<"a", ".py">> >>,
      << <<"a", ".pyc">> >>,
      << <<"__pycache__">>, <<"a", ".pyc">> >>,
      << <<"sub">>, <<"b", ".py">> >>,
      << <<"sub">>, <<"b", ".pyc">> >>,
      << <<"sub">>, <<"__pycache__">>, <<"b", ".pyc">> >>,
      << <<"build">>, <<"c", ".py">> >>,
      << <<"build", "er">>, <<"c", ".py">> >>,
      << <<"my", "dist">>, <<"d", ".py">> >>,
      << <<"x", ".egg-info">>, <<"PKG-INFO">> >> }

\* the directories of the working directory that hold packages
PackageRoots == { << <<"pkg">> >>, << <<"src">>, <<"lib">> >> }

\* the package mappings handed to init_build_package_dir
PackageMappings ==
    LET dirs == { RelDir(r) : r \in PackageRoots }
                \cup { RelDir(<< <<".">> >>), AbsDir(<< <<"home">>, <<"pkg">> >>) }
    IN  { <<d>> : d \in dirs } \cup { <<p[1], p[2]>> : p \in { q \in dirs \X dirs : q[1] # q[2] } }

\* a file with every directory above it
WithParents(path, data) ==
    {FileEntry(path, data)} \cup { DirEntry(SubSeq(path, 1, n)) : n \in 1..(Len(path) - 1) }

\* the working directory: the same files in every package root, and
\* possibly a staged copy left by an earlier build
WorkingDirs ==
    { UNION { WithParents(root \o f, root \o f) : root \in PackageRoots, f \in files }
      \cup stale :
        files \in { F \in SUBSET TreeFileChoices : Cardinality(F) <= MaxTreeFiles },
        stale \in { {},
                    WithParents(OutputDir \o << <<"pkg">>, <<"stale", ".py">> >>, <<"stale">>) } }

StageInit ==
    /\ g_fs \in WorkingDirs
    /\ g_fs0 = g_fs
    /\ g_packages \in PackageMappings
    /\ g_idx = 1
    /\ g_result = <<>>
    /\ g_pc = "start"

StageIdle ==
    /\ g_fs = {}
    /\ g_fs0 = {}
    /\ g_packages = <<>>
    /\ g_idx = 1
    /\ g_result = <<>>
    /\ g_pc = "idle"

\* output_dir.mkdir(parents=True, exist_ok=True)
MakeOutputDir ==
    /\ g_pc = "start"
    /\ g_fs' = MakeDirs(g_fs, OutputDir)
    /\ g_pc' = "loop"
    /\ UNCHANGED <<g_fs0, g_packages, g_idx, g_result>>
    /\ UNCHANGED notStageVars

\* one pass of `for package, src_package_dir in local_package_dir.items()`
StagePackage ==
    /\ g_pc = "loop"
    /\ g_idx <= Len(g_packages)
    /\ LET src_package_dir      == g_packages[g_idx]
           build_package_subdir == BuildPackageSubdir(src_package_dir)
       IN  IF src_package_dir.is_abs
           THEN /\ g_pc' = "raised"
                /\ UNCHANGED <<g_fs, g_idx, g_result>>
           ELSE /\ g_fs' = LET removed == IF PathExists(g_fs, build_package_subdir)
                                          THEN RmTree(g_fs, build_package_subdir)
                                          ELSE g_fs
                           IN  MakeDirs(removed, build_package_subdir)
                               \cup CopyTree(removed, src_package_dir.parts, build_package_subdir)
                /\ g_result' = Append(g_result, build_package_subdir)
                /\ g_idx' = g_idx + 1
                /\ g_pc' = "loop"
    /\ UNCHANGED <<g_fs0, g_packages>>
    /\ UNCHANGED notStageVars

\* return build_package_dir
StageReturn ==
    /\ g_pc = "loop"
    /\ g_idx > Len(g_packages)
    /\ g_pc' = "returned"
    /\ UNCHANGED <<g_fs, g_fs0, g_packages, g_idx, g_result>>
    /\ UNCHANGED notStageVars

-----------------------------------------------------------------------------
(* packaging.py: eval_build_config *)

\* a str is the sequence of its characters
Whitespace == { " ", "\n" }

\* the characters of the pattern [\^\~<>=;]
SplitChars == { "^", "~", "<", ">", "=", ";" }

RECURSIVE LStrip(_)
LStrip(str) ==
    IF str # <<>> /\ Head(str) \in Whitespace THEN LStrip(Tail(str)) ELSE str

RECURSIVE RStrip(_)
RStrip(str) ==
    IF str # <<>> /\ str[Len(str)] \in Whitespace
    THEN RStrip(SubSeq(str, 1, Len(str) - 1))
    ELSE str

\* str.strip()
Strip(str) == RStrip(LStrip(str))

RECURSIVE SplitFrom(_, _, _)
\* the words of str from position i on, word being the word read so far
SplitFrom(str, i, word) ==
    IF i > Len(str) THEN (IF word = <<>> THEN <<>> ELSE <<word>>)
    ELSE IF str[i] \in Whitespace
         THEN (IF word = <<>> THEN <<>> ELSE <<word>>) \o SplitFrom(str, i + 1, <<>>)
         ELSE SplitFrom(str, i + 1, Append(word, str[i]))

\* str.split(): the words between runs of whitespace
Split(str) == SplitFrom(str, 1, <<>>)

RECURSIVE ReSplitFirst(_)
\* re.split(r"[\^\~<>=;]", str)[0]: what stands before the first such character
ReSplitFirst(str) ==
    IF str = <<>> \/ Head(str) \in SplitChars THEN <<>>
    ELSE <<Head(str)>> \o ReSplitFirst(Tail(str))

\* the set comprehension of the `if install_requires:` branch
NormalizeRequires(install_requires) == { ReSplitFirst(Strip(req)) : req \in install_requires }

\* eval_build_config(**kwargs): the error raised, or the configuration returned
EvalBuildConfig(kwargs) ==
    LET _install_requires == kwargs.install_requires
        collected ==
            IF _install_requires.type = "NoneType" THEN NoSet
            ELSE IF _install_requires.type = "str"
                 THEN LET words == Split(_install_requires.chars)
                      IN  SomeSet({ words[k] : k \in 1..Len(words) })
                 ELSE SomeSet({ _install_requires.items[k] :
                                k \in 1..Len(_install_requires.items) })
        install_requires ==
            IF collected.some /\ collected.val # {}
            THEN SomeSet(NormalizeRequires(collected.val))
            ELSE collected
    IN  IF _install_requires.type \notin {"NoneType", "str", "list"}
        THEN [err |-> "TypeError", cfg |-> None]
        ELSE [err |-> None,
              cfg |-> [BuildConfig(kwargs.target_version, kwargs.cache_enabled, NoSet, NoSet)
                           EXCEPT !.install_requires = install_requires]]

\* the values of an argument: None, a str, a list of str or a tuple of str
PyNone == [type |-> "NoneType", chars |-> <<>>, items |-> <<>>]
PyStr(chars) == [type |-> "str", chars |-> chars, items |-> <<>>]
PyList(items) == [type |-> "list", chars |-> <<>>, items |-> items]
PyTuple(items) == [type |-> "tuple", chars |-> <<>>, items |-> items]

\* distribution names, and what may follow a name in a requirement string
DistNames == { <<"a">>, <<"b", "-", "c">> }

VersionSpecs ==
    { <<">", "=", "1">>, <<"=", "=", "1", ".", "0">>, <<"~", "=", "1">>, <<"<", "2">>,
      <<"^", "1">>, <<";", "m">> }

\* requirement strings: a name, bare or followed by a specifier or marker,
\* with or without a blank before it
Requirements ==
    DistNames
    \cup { name \o gap \o spec : name \in DistNames, gap \in {<<>>, <<" ">>}, spec \in VersionSpecs }
    \cup { <<" ">> \o name \o <<" ">> : name \in DistNames }

\* requirement strings that hold no whitespace
Words == { req \in Requirements : \A k \in 1..Len(req) : req[k] \notin Whitespace }

RequirementLists == UNION { [1..n -> Requirements] : n \in 0..MaxReqs }

RECURSIVE Join(_, _)
\* sep.join(words)
Join(sep, words) ==
    IF words = <<>> THEN <<>>
    ELSE IF Len(words) = 1 THEN words[1]
    ELSE words[1] \o sep \o Join(sep, Tail(words))

\* whitespace-delimited strings of requirements
RequirementStrings ==
    { Join(sep, words) : sep \in { <<" ">>, <<"\n">>, <<" ", " ">> },
                         words \in UNION { [1..n -> Words] : n \in 0..MaxReqs } }

\* the values install_requires is given
InstallRequiresChoices ==
    { PyNone }
    \cup { PyStr(v) : v \in RequirementStrings }
    \cup { PyList(v) : v \in RequirementLists }
    \cup { PyTuple(v) : v \in { <<>>, << <<"a">> >> } }

ConfigInit ==
    /\ e_kwargs \in { [target_version |-> VersionStr(<<2, 7>>), cache_enabled |-> TRUE,
                       install_requires |-> r] : r \in InstallRequiresChoices }
    /\ e_cfg = None
    /\ e_pc = "start"

ConfigIdle ==
    /\ e_kwargs = None
    /\ e_cfg = None
    /\ e_pc = "idle"

\* one call eval_build_config(**kwargs)
EvalBuildConfigCall ==
    /\ e_pc = "start"
    /\ LET call == EvalBuildConfig(e_kwargs) IN
       IF call.err # None
       THEN /\ e_pc' = "raised"
            /\ UNCHANGED e_cfg
       ELSE /\ e_pc' = "returned"
            /\ e_cfg' = call.cfg
    /\ UNCHANGED e_kwargs
    /\ UNCHANGED notConfigVars

-----------------------------------------------------------------------------
(* tests/test_fixers.py: the header and future-import fixtures *)

\* the allow-list of the "future_imports" fixture
FUTURE_IMPORTS_FIXERS ==
    { "AbsoluteImportFutureFixer", "DivisionFutureFixer",
      "PrintFunctionFutureFixer", "UnicodeLiteralsFutureFixer" }

\* the lines of the fixtures' headers
Shebang == "#!/usr/bin/env python"
CodingDeclaration == "# -*- coding: utf-8 -*-"
CommentLines == { "# This file is part of the three2six project", "#" }

\* a module text: its leading comment lines and its statements
Module(lines, body) == [lines |-> lines, body |-> body]

\* cfg = {"fixers": fixers}: the names of the comma-separated allow-list,
\* none for the empty string
FixersOf(allow_list) ==
    IF allow_list = <<>> THEN NoSet
    ELSE SomeSet({ allow_list[k] : k \in 1..Len(allow_list) })

\* transpile.parse_module_header: the leading comment lines, with the coding
\* declaration put after the shebang line when the module declares none
ParseModuleHeader(lines) ==
    IF \E k \in 1..Len(lines) : k <= 2 /\ lines[k] = CodingDeclaration THEN lines
    ELSE IF lines # <<>> /\ lines[1] = Shebang
         THEN <<Shebang, CodingDeclaration>> \o Tail(lines)
         ELSE <<CodingDeclaration>> \o lines

\* transpile.transpile_module(cfg, in_data) with the default target version
TranspileModule(allow_list, module) ==
    LET cfg == BuildConfig(VersionStr(<<2, 7>>), TRUE, FixersOf(allow_list), NoSet)
        ctx == BuildContext(cfg, "<testfile>")
    IN  Module(ParseModuleHeader(module.lines), TranspileModuleData(ctx, module.body).data)

\* the orders in which an allow-list can name the fixers of S
Orders(S) ==
    { f \in [1..Cardinality(S) -> S] : \A i, j \in 1..Cardinality(S) : f[i] = f[j] => i = j }

\* the headers: an optional shebang, an optional coding declaration, comments
FixtureHeaders ==
    { shebang \o coding \o comments :
        shebang \in { <<>>, <<Shebang>> },
        coding \in { <<>>, <<CodingDeclaration>> },
        comments \in UNION { [1..n -> CommentLines] : n \in 0..MaxComments } }

\* the statements: an optional module docstring, then `hello = "world"` or nothing
FixtureBodies ==
    { doc \o rest : doc \in { <<>>, <<Stmt("Expr", <<>>)>> },
                    rest \in { <<>>, <<Stmt("Assign", <<>>)>> } }

FixtureInit ==
    /\ x_fixers \in Orders(FUTURE_IMPORTS_FIXERS) \cup { <<>> }
    /\ x_in \in { Module(lines, body) : lines \in FixtureHeaders, body \in FixtureBodies }
    /\ x_in_header = <<>>
    /\ x_result = Module(<<>>, <<>>)
    /\ x_pc = "parse"

FixtureIdle ==
    /\ x_fixers = <<>>
    /\ x_in = Module(<<>>, <<>>)
    /\ x_in_header = <<>>
    /\ x_result = Module(<<>>, <<>>)
    /\ x_pc = "idle"

\* in_coding, in_header = transpile.parse_module_header(in_data)
TestParseHeader ==
    /\ x_pc = "parse"
    /\ x_in_header' = ParseModuleHeader(x_in.lines)
    /\ x_pc' = "transpile"
    /\ UNCHANGED <<x_fixers, x_in, x_result>>
    /\ UNCHANGED notFixtureVars

\* result_data = transpile.transpile_module(cfg, in_data)
TestTranspileModule ==
    /\ x_pc = "transpile"
    /\ x_result' = TranspileModule(x_fixers, x_in)
    /\ x_pc' = "done"
    /\ UNCHANGED <<x_fixers, x_in, x_in_header>>
    /\ UNCHANGED notFixtureVars

-----------------------------------------------------------------------------
(* Specifications *)

InitCheck == CheckInit /\ FutureIdle /\ CacheIdle /\ RaceIdle /\ BatchIdle /\ StageIdle /\ ConfigIdle /\ FixtureIdle
NextCheck == CheckerCall
SpecCheck == InitCheck /\ [][NextCheck]_vars

InitFuture == FutureInit /\ CheckIdle /\ CacheIdle /\ RaceIdle /\ BatchIdle /\ StageIdle /\ ConfigIdle /\ FixtureIdle
NextFuture == RunFutureFixer \/ RunCleanupFixer
SpecFuture == InitFuture /\ [][NextFuture]_vars

InitCache == CacheInit /\ CheckIdle /\ FutureIdle /\ RaceIdle /\ BatchIdle /\ StageIdle /\ ConfigIdle /\ FixtureIdle
NextCache == TranspilePathCall
SpecCache == InitCache /\ [][NextCache]_vars

InitRace == RaceInit /\ CheckIdle /\ FutureIdle /\ CacheIdle /\ BatchIdle /\ StageIdle /\ ConfigIdle /\ FixtureIdle
NextRace ==
    \E p \in Procs :
        \/ ReadSource(p)
        \/ TestCache(p)
        \/ TranspileData(p)
        \/ OpenCacheFile(p)
        \/ WriteCacheFile(p)
        \/ CopyToStaged(p)
SpecRace == InitRace /\ [][NextRace]_vars

InitBatch == BatchInit /\ CheckIdle /\ FutureIdle /\ CacheIdle /\ RaceIdle /\ StageIdle /\ ConfigIdle /\ FixtureIdle
NextBatch == MainLoopBody \/ BuildPackageLoopBody \/ LoopExit
SpecBatch == InitBatch /\ [][NextBatch]_vars

InitStage == StageInit /\ CheckIdle /\ FutureIdle /\ CacheIdle /\ RaceIdle /\ BatchIdle /\ ConfigIdle /\ FixtureIdle
NextStage == MakeOutputDir \/ StagePackage \/ StageReturn
SpecStage == InitStage /\ [][NextStage]_vars

InitConfig == ConfigInit /\ CheckIdle /\ FutureIdle /\ CacheIdle /\ RaceIdle /\ BatchIdle /\ StageIdle /\ FixtureIdle
NextConfig == EvalBuildConfigCall
SpecConfig == InitConfig /\ [][NextConfig]_vars

InitFixture == FixtureInit /\ CheckIdle /\ FutureIdle /\ CacheIdle /\ RaceIdle /\ BatchIdle /\ StageIdle /\ ConfigIdle
NextFixture == TestParseHeader \/ TestTranspileModule
SpecFixture == InitFixture /\ [][NextFixture]_vars

-----------------------------------------------------------------------------
(* Properties of the checker *)

Range(f) == {f[i] : i \in DOMAIN f}

\* the statement node imports module m: `import m` or `from m import ...`
NodeImports(node, m) ==
    \/ node.type = "Import" /\ m \in Range(node.names)
    \/ node.type = "ImportFrom" /\ node.module = m

\* a direct child of the module body imports m
TopLevelImport(body, m) == \E i \in 1..Len(body) : NodeImports(body[i], m)

\* a statement nested in a compound statement of the module body imports m
NestedImport(body, m) ==
    \E i \in 1..Len(body) : \E j \in 1..Len(body[i].body) : NodeImports(body[i].body[j], m)

\* the only table module imported at top level is m
OnlyTableImport(body, m) ==
    /\ TopLevelImport(body, m)
    /\ \A n \in DOMAIN MAYBE_UNUSABLE_MODULES : TopLevelImport(body, n) => n = m

\* the places where the module body imports m at top level: (statement, name) positions
ImportSites(body, m) ==
    { <<i, k>> \in (1..Len(body)) \X (1..2) :
        /\ body[i].type \in {"Import", "ImportFrom"}
        /\ \/ body[i].type = "Import" /\ k <= Len(body[i].names) /\ body[i].names[k] = m
           \/ body[i].type = "ImportFrom" /\ k = 1 /\ body[i].module = m }

\* the target version is numerically below the version string s
TargetBelow(target, s) == ~PairGeq(target, VersionPair(s))

CheckerRan == c_pc \in {"returned", "raised"}

\* C1: for every target version below 3.4 and every backports configuration,
\* the checker raises CheckError on a module with a top-level import of asyncio.
C1_AsyncioAlwaysRaises ==
    (CheckerRan /\ TargetBelow(c_target, V3(4)) /\ TopLevelImport(c_tree, "asyncio"))
        => c_pc = "raised"

\* C2: the checker's branch `target_version >= available_since` is taken iff
\* (major, minor) of the target is numerically >= (major, minor) of
\* available_since; a module whose imports are all supported numerically passes.
C2_NumericVersionComparison ==
    \A m \in DOMAIN MAYBE_UNUSABLE_MODULES :
        (CheckerRan /\ OnlyTableImport(c_tree, m)) =>
            LET geq == PairGeq(c_target, VersionPair(MAYBE_UNUSABLE_MODULES[m].available_since))
            IN  /\ TargetSupports(VersionStr(c_target), MAYBE_UNUSABLE_MODULES[m]) <=> geq
                /\ geq => (c_pc = "returned" /\ c_log = <<>>)

\* C7: target below 3.3 and lzma the table module imported at top level:
\* with lzma whitelisted the checker returns and logs nothing; with no whitelist
\* configured it returns and logs exactly one warning per import of lzma.
C7_LzmaWhitelistedOrWarned ==
    (CheckerRan /\ TargetBelow(c_target, V3(3)) /\ OnlyTableImport(c_tree, "lzma")) =>
        /\ (c_backports.some /\ "lzma" \in c_backports.val)
              => (c_pc = "returned" /\ c_log = <<>>)
        /\ ~c_backports.some
              => /\ c_pc = "returned"
                 /\ Len(c_log) = Cardinality(ImportSites(c_tree, "lzma"))
                 /\ \A j \in 1..Len(c_log) :
                       /\ c_log[j].mname = "lzma"
                       /\ NodeImports(c_tree[c_log[j].lineno], "lzma")
                       /\ c_log[j].target_version = VersionStr(c_target)

C7_Witness_Whitelisted ==
    /\ c_pc = "returned" /\ c_target = <<2, 7>> /\ c_backports = SomeSet({"lzma"})
    /\ c_tree = <<Import(<<"lzma">>)>> /\ c_log = <<>>

C7_Witness ==
    /\ c_pc = "returned" /\ c_target = <<3, 2>> /\ ~c_backports.some
    /\ c_tree = <<Import(<<"os", "lzma">>), ImportFrom("lzma", <<"x">>, 0)>>
    /\ Len(c_log) = 2

\* the modules whose backport installs under a different name
DifferentNameModules == {"csv", "selectors", "pathlib", "importlib.resources", "inspect"}

C9_NestedImportsIgnored ==
    ( /\ CheckerRan
      /\ \E m \in DOMAIN MAYBE_UNUSABLE_MODULES : NestedImport(c_tree, m)
      /\ \A m \in DOMAIN MAYBE_UNUSABLE_MODULES : ~TopLevelImport(c_tree, m) )
    => (c_pc = "returned" /\ c_log = <<>>)

C9_Witness ==
    /\ c_pc = "returned" /\ c_target = <<2, 7>> /\ c_backports = SomeSet({})
    /\ c_tree = <<Stmt("Try", <<Import(<<"asyncio">>)>>)>>
    /\ c_log = <<>>

-----------------------------------------------------------------------------
(* Properties of the future-import fixers *)

\* the future_name's of the FutureImportFixerBase subclasses whose range
\* apply_since <= target <= apply_until holds the target, compared as pairs
InRangeFutures(target) ==
    { FUTURE_FIXERS[i].future_name : i \in
        { j \in 1..Len(FUTURE_FIXERS) :
            /\ PairGeq(target, VersionPair(FUTURE_FIXERS[j].version_info.apply_since))
            /\ PairGeq(VersionPair(FUTURE_FIXERS[j].version_info.apply_until), target) } }

IsFutureStmt(node) ==
    node.type = "ImportFrom" /\ node.module = "__future__" /\ node.level = 0

\* the feature names of the `from __future__ import` statements of a body
FutureNamesOf(body) ==
    UNION { Range(body[i].names) : i \in { j \in 1..Len(body) : IsFutureStmt(body[j]) } }

\* the feature names the fixers have registered
RegisteredFutures == { d.import_name : d \in { r \in f_required : r.module_name = "__future__" } }

RECURSIVE FilteredBody(_, _)
\* a body with every `from __future__ import` statement reduced to the names in
\* keep, in their order, and dropped when no name is left
FilteredBody(body, keep) ==
    IF Len(body) = 0 THEN <<>>
    ELSE LET node == Head(body)
             kept == SelectSeq(node.names, LAMBDA n : n \in keep)
         IN  (IF ~IsFutureStmt(node) THEN <<node>>
              ELSE IF Len(kept) = 0 THEN <<>>
              ELSE <<[node EXCEPT !.names = kept]>>)
             \o FilteredBody(Tail(body), keep)

\* C3: after the future-import fixers and RemoveUnsupportedFuturesFixer have
\* run, the surviving future feature names are exactly the registered or
\* present names whose fixer's range holds the target, and every future
\* statement of the module (docstring first or not) keeps exactly its
\* in-range names in order, or is deleted when none is left.
C3_SurvivingFuturesAreInRange ==
    f_pc = "done" =>
        /\ FutureNamesOf(f_body) \cup RegisteredFutures
             = (FutureNamesOf(f_source) \cup RegisteredFutures) \cap InRangeFutures(f_target)
        /\ f_body = FilteredBody(f_source, InRangeFutures(f_target))

-----------------------------------------------------------------------------
(* Properties of transpile_path *)

\* two configurations that differ at most in cache_enabled
SameRules(cfg1, cfg2) == [cfg1 EXCEPT !.cache_enabled = TRUE] = [cfg2 EXCEPT !.cache_enabled = TRUE]

C5_ConcurrentBuildsBenign ==
    \A p \in DOMAIN r_pc :
        r_pc[p] = "done" =>
            r_staged[p] = File(TranspileModuleData(BuildContext(r_cfg, "mod.py"), r_source).data)

-----------------------------------------------------------------------------
(* Properties of the batch loops *)

\* what the pipeline makes of the file at position i of the batch
BatchFixed(i) == TranspileModuleData(BuildContext(b_cfg, "<filepath>"), b_files[i].source)

\* the loop transpiles the file at position i
BatchTakes(i) == b_mode # "build_package" \/ b_files[i].suffix = ".py"

\* the file at position i has been transpiled and written (or printed)
BatchWritten(i) ==
    /\ BatchFixed(i).err.kind = "NoError"
    /\ CASE b_mode \in {"in_place", "build_package"} -> b_fs[i] = File(BatchFixed(i).data)
         [] b_mode = "print" -> i <= Len(b_out) /\ b_out[i] = BatchFixed(i).data
         [] b_mode = "diff"  -> i <= Len(b_out)
                                /\ b_out[i] = <<b_files[i].source, BatchFixed(i).data>>

\* nothing has been written or printed for the file at position i
BatchUntouched(i) ==
    /\ b_fs[i] = File(b_files[i].source)
    /\ b_mode \in {"print", "diff"} => Len(b_out) < i

BatchEnded == b_pc \in {"done", "raised"}

\* C6: a failure while transpiling one file of a batch aborts that file only;
\* every other file of the batch, also those after the failing one, is
\* transpiled and written.
C6_FailureAbortsOneFileOnly ==
    BatchEnded =>
        \A i \in 1..Len(b_files) :
            (BatchTakes(i) /\ BatchFixed(i).err.kind = "NoError") => BatchWritten(i)

\* C6 as amended: a failure while transpiling one file ends the batch at that
\* file; the files before it are transpiled and written, the failing file and
\* every file after it are left as they were; a batch without a failure
\* transpiles and writes every file.
C6_FailureAbortsBatch ==
    /\ b_pc = "raised" =>
          /\ b_idx \in 1..Len(b_files)
          /\ BatchTakes(b_idx) /\ BatchFixed(b_idx).err.kind = "CheckError"
          /\ b_err.kind = "CheckError"
          /\ \A i \in 1..(b_idx - 1) : IF BatchTakes(i) THEN BatchWritten(i) ELSE BatchUntouched(i)
          /\ \A i \in b_idx..Len(b_files) : BatchUntouched(i)
    /\ b_pc = "done" =>
          \A i \in 1..Len(b_files) : IF BatchTakes(i) THEN BatchWritten(i) ELSE BatchUntouched(i)
    /\ (BatchEnded /\ \E i \in 1..Len(b_files) : BatchTakes(i) /\ BatchFixed(i).err.kind # "NoError")
          => b_pc = "raised"

C6_Witness ==
    /\ b_pc = "raised" /\ b_idx = 2 /\ Len(b_files) = 3
    /\ BatchWritten(1)
    /\ BatchTakes(3) /\ BatchFixed(3).err.kind = "NoError" /\ BatchUntouched(3)

-----------------------------------------------------------------------------
(* Properties of staging *)

\* the entries of the staged copy of the package at position i of the mapping
StagedEntries(i) == { e \in g_fs : IsPrefix(g_result[i], e.path) }

\* the package directory holds a __pycache__ subdirectory and a loose .pyc file
HasBytecode(src_package_dir) ==
    LET root == NormPath(src_package_dir.parts) IN
    /\ \E e \in g_fs : e.kind = "dir" /\ e.path = Append(root, <<"__pycache__">>)
    /\ \E e \in g_fs : e.kind = "file" /\ Len(e.path) = Len(root) + 1
                       /\ IsPrefix(root, e.path) /\ EndsWith(e.path[Len(e.path)], <<".pyc">>)

\* C10: after init_build_package_dir has staged a package directory that holds
\* a __pycache__ subdirectory and loose .pyc files, the staged copy holds no
\* __pycache__ directory, not even an empty one, and no .pyc file at any depth.
C10_StagedCopyHasNoBytecode ==
    g_pc = "returned" =>
        \A i \in 1..Len(g_result) :
            (g_packages[i].parts \in PackageRoots /\ HasBytecode(g_packages[i])) =>
                \A e \in StagedEntries(i) :
                    \A k \in (Len(g_result[i]) + 1)..Len(e.path) :
                        /\ e.path[k] # <<"__pycache__">>
                        /\ ~EndsWith(e.path[k], <<".pyc">>)

-----------------------------------------------------------------------------
(* Strict mode *)

\* the modules whose backport installs under the module's own name
SameNameModules ==
    {"lzma", "ipaddress", "enum", "typing", "secrets", "statistics", "dataclasses",
     "contextvars"}

\* C13: strict mode is decided by whether a whitelist is configured: with
\* backports a set (empty or not) that does not hold the module, a top-level
\* import of a same-named-backport module at a target below available_since
\* raises CheckError and logs nothing; with backports absent the import is
\* tolerated with a warning.
C13_StrictModeByConfiguration ==
    \A m \in SameNameModules :
        ( /\ CheckerRan
          /\ OnlyTableImport(c_tree, m)
          /\ TargetBelow(c_target, MAYBE_UNUSABLE_MODULES[m].available_since) )
        => /\ (c_backports.some /\ m \notin c_backports.val)
                => /\ c_pc = "raised"
                   /\ c_log = <<>>
                   /\ c_err.msg[2] = m
                   /\ NodeImports(c_tree[c_err.lineno], m)
           /\ ~c_backports.some
                => /\ c_pc = "returned"
                   /\ Len(c_log) = Cardinality(ImportSites(c_tree, m))
                   /\ \A j \in 1..Len(c_log) : c_log[j].mname = m

C13_Witness ==
    /\ c_pc = "raised" /\ c_target = <<2, 7>> /\ c_backports = SomeSet({})
    /\ c_tree = <<Import(<<"enum">>)>>
    /\ c_err.msg[2] = "enum" /\ c_log = <<>>

-----------------------------------------------------------------------------
(* Absolute source paths *)

\* the entries below build/lib3to6_out
StagedBelowOutputDir(fs) == { e \in fs : IsPrefix(OutputDir, e.path) /\ e.path # OutputDir }

\* the mapping has an entry with an absolute source path
HasAbsoluteEntry == \E i \in 1..Len(g_packages) : g_packages[i].is_abs

\* C14: when an entry of the package mapping has an absolute source path,
\* init_build_package_dir fails and nothing has happened: no package of the
\* mapping has been staged and what lay below build/lib3to6_out before the call
\* still lies there unchanged, wherever the absolute entry stands in the mapping.
C14_AbsolutePathNoPartialOutput ==
    /\ HasAbsoluteEntry => g_pc # "returned"
    /\ g_pc = "raised"
          => /\ g_result = <<>>
             /\ StagedBelowOutputDir(g_fs) = StagedBelowOutputDir(g_fs0)

-----------------------------------------------------------------------------
(* What staging copies *)

\* a directory name the staging is meant to leave out
IsTmpDirName(name) ==
    \/ name \in { <<"build">>, <<"dist">>, <<"__pycache__">> }
    \/ EndsWith(name, <<".egg-info">>)

\* the relative path of a file that staging is meant to copy
IsKeptFile(rel) ==
    /\ Len(rel) >= 1
    /\ ~EndsWith(rel[Len(rel)], <<".pyc">>)
    /\ \A k \in 1..(Len(rel) - 1) : ~IsTmpDirName(rel[k])

\* the files of the package tree at position i, as they were at the call
PackageFiles(i) ==
    LET root == NormPath(g_packages[i].parts)
    IN  { e \in g_fs0 : e.kind = "file" /\ IsPrefix(root, e.path) /\ Len(e.path) > Len(root) }

\* the path of an entry relative to a directory above it
RelPath(dir, path) == SubSeq(path, Len(dir) + 1, Len(path))

\* C16: after staging, every file of a declared package tree that is not a .pyc
\* file and does not lie inside a directory named build, dist, __pycache__ or
\* *.egg-info is in the staged copy at the same relative path with the same
\* content (files under builder or mydist included), and every file of the
\* staged copy is a file of the package tree: nothing stale remains.
C16_StagingCopiesEverythingElse ==
    g_pc = "returned" =>
        \A i \in 1..Len(g_result) :
            LET root == NormPath(g_packages[i].parts) IN
            /\ \A e \in PackageFiles(i) :
                  IsKeptFile(RelPath(root, e.path))
                      => FileEntry(g_result[i] \o RelPath(root, e.path), e.data) \in g_fs
            /\ \A e \in StagedEntries(i) :
                  e.kind = "file"
                      => FileEntry(root \o RelPath(g_result[i], e.path), e.data) \in g_fs0

-----------------------------------------------------------------------------
(* CheckError inside transpile_path *)

\* what the pipeline raises for the latest call of transpile_path
PipelineError(call) ==
    TranspileModuleData(BuildContext(call.cfg, call.filepath), t_files[call.filepath]).err

\* the prefix the raised message is expected to carry
ExpectedPrefix(filepath, lineno) ==
    IF lineno >= 0 THEN <<filepath, "@", lineno, " - ">> ELSE <<filepath, " - ">>

\* C15: when the pipeline raises CheckError inside transpile_path, the call
\* raises the same error with its message prefixed by "<filepath>@<lineno> - "
\* (lineno >= 0) or "<filepath> - " (lineno -1), and the call leaves the cache
\* as it was, whether cache_enabled is true or false.
C15_CheckErrorAnnotatedCacheUnchanged ==
    [][ LET call   == t_last'
            raised == PipelineError(call)
        IN  ( /\ call.filepath \in CacheFilePaths
              /\ MustTranspile(call.cfg, t_cache, CachePath(call.cfg, t_files[call.filepath]))
              /\ raised.kind = "CheckError" )
            => /\ ~call.returned
               /\ call.err = [raised EXCEPT
                                 !.msg = ExpectedPrefix(call.filepath, raised.lineno) \o @]
               /\ t_cache' = t_cache
               /\ t_results' = t_results ]_vars

\* a CheckError without a line, raised with caching disabled, after another
\* call has filled a cache entry
C15_Witness ==
    /\ t_last.err.kind = "CheckError" /\ t_last.err.lineno = -1
    /\ t_last.err.msg = <<t_last.filepath, " - ", "Prohibited construct">>
    /\ ~t_last.cfg.cache_enabled
    /\ t_cache[CachePath(t_last.cfg, t_files[t_last.filepath])] = NoFile
    /\ \E k \in DOMAIN t_cache : t_cache[k].exists

\* a CheckError with a line
C15_Witness_Lineno ==
    /\ t_last.err.kind = "CheckError" /\ t_last.err.lineno >= 0
    /\ SubSeq(t_last.err.msg, 1, 4) = <<t_last.filepath, "@", t_last.err.lineno, " - ">>

-----------------------------------------------------------------------------
(* install_requires *)

\* the characters of a distribution name
NameChars == { "a", "b", "c", "-" }

RECURSIVE NamePrefix(_)
\* the leading run of name characters
NamePrefix(str) ==
    IF str # <<>> /\ Head(str) \in NameChars THEN <<Head(str)>> \o NamePrefix(Tail(str)) ELSE <<>>

\* the distribution name of a requirement string
DistributionName(req) == NamePrefix(LStrip(req))

\* the requirement strings install_requires was given
GivenRequirements ==
    LET given == e_kwargs.install_requires IN
    IF given.type = "str" THEN { Split(given.chars)[k] : k \in 1..Len(Split(given.chars)) }
    ELSE { given.items[k] : k \in 1..Len(given.items) }

\* a bare dependency name
IsBareName(name) ==
    /\ name # <<>>
    /\ name[1] \notin Whitespace /\ name[Len(name)] \notin Whitespace
    /\ \A k \in 1..Len(name) : name[k] \notin SplitChars

\* C11: eval_build_config turns install_requires into the set of bare
\* dependency names: absent stays absent, and otherwise the result holds exactly
\* the distribution name of every requirement string, none of them empty, with
\* surrounding whitespace, or holding one of ^ ~ < > = ;
C11_InstallRequiresBareNames ==
    e_pc = "returned" =>
        IF e_kwargs.install_requires.type = "NoneType"
        THEN e_cfg.install_requires = NoSet
        ELSE /\ e_cfg.install_requires.some
             /\ e_cfg.install_requires.val = { DistributionName(req) : req \in GivenRequirements }
             /\ \A name \in e_cfg.install_requires.val : IsBareName(name)

\* the same for requirement strings that hold no whitespace before the specifier
C11_HoldsWithoutInnerWhitespace ==
    (\A req \in GivenRequirements : Strip(req) \in Words) => C11_InstallRequiresBareNames

-----------------------------------------------------------------------------
(* The future imports of the output *)

\* the four future imports of the expected outputs, in their order
EXPECTED_FUTURES == << "unicode_literals", "print_function", "division", "absolute_import" >>

\* one `from __future__ import <name>` statement per expected name
ExpectedFutureStmts ==
    [i \in 1..Len(EXPECTED_FUTURES) |-> ImportFrom("__future__", <<EXPECTED_FUTURES[i]>>, 0)]

\* the docstring statement of a body, if it starts with one
DocstringOf(body) == IF body # <<>> /\ body[1].type = "Expr" THEN <<body[1]>> ELSE <<>>

\* the statements of a body after its docstring
AfterDocstring(body) == SubSeq(body, Len(DocstringOf(body)) + 1, Len(body))

\* the lines of a header other than an inserted coding declaration
OriginalLines(result_lines, in_lines) ==
    IF result_lines = in_lines THEN result_lines
    ELSE SelectSeq(result_lines, LAMBDA l : l # CodingDeclaration)

=============================================================================
